---- MODULE Spec2Model ----
(***************************************************************************)
(* Model of dbspy.stream (Stream, Lift1, Lift2, LiftedGroupAdd,            *)
(* LiftedGroupNegate, StreamAddition) and dbspy.stream.operators.linear    *)
(* (Delay, Differentiate, Integrate).                                      *)
(*                                                                         *)
(* A Stream is a record; every method is an operator from the record(s) it *)
(* touches to the record(s) it leaves behind plus its return value, so a   *)
(* read that extends its stream shows up as a changed record.  The value   *)
(* group is the integers under +.                                          *)
(***************************************************************************)
EXTENDS Integers, Sequences, FiniteSets, TLC

\* ---------------------------------------------------------------- bounds
\* sends a caller makes on input a, on input b
MaxSends == 3

MaxSendsB == 2

\* largest timestamp a caller reads
MaxRead == 5

\* step() is not called once the output cursor has reached this
MaxSteps == 5

\* Values a caller sends (3, 5, 2 are the documented scenario; -3 cancels 3).
Values == {-3, 0, 2, 3, 5}

ValuesB == {-3, 0, 3}

\* ------------------------------------------- the Abelian group capability
GroupIdentity == 0

GroupAdd(x, y) == x + y

GroupNeg(x) == 0 - x

\* ---------------------------------------------------------------- Stream
\* inner is an OrderedDict: a sequence of <<timestamp, value>> in insertion
\* order.  default_changes is a dict {timestamp: default}.
SetMax(S) == CHOOSE m \in S : \A k \in S : k <= m

InnerKeys(inner) == {inner[i][1] : i \in 1..Len(inner)}

\* OrderedDict.get(key, dflt)
InnerGet(inner, key, dflt) ==
    IF key \in InnerKeys(inner)
    THEN inner[CHOOSE i \in 1..Len(inner) : inner[i][1] = key][2]
    ELSE dflt

\* OrderedDict.__setitem__: an existing key keeps its place, a new one is appended
InnerSet(inner, key, val) ==
    IF key \in InnerKeys(inner)
    THEN [i \in 1..Len(inner) |-> IF inner[i][1] = key THEN <<key, val>> ELSE inner[i]]
    ELSE Append(inner, <<key, val>>)

\* Stream.send
SendStoresDefault(s, element) ==
    [s EXCEPT !.inner = InnerSet(s.inner, s.timestamp + 1, element),
              !.identity = FALSE,
              !.timestamp = s.timestamp + 1]

SendOverwrites(s, element) ==
    IF element # s.default
    THEN [s EXCEPT !.inner = InnerSet(s.inner, s.timestamp, element),
                   !.identity = FALSE,
                   !.timestamp = s.timestamp + 1]
    ELSE [s EXCEPT !.timestamp = s.timestamp + 1]

Send(s, element) ==
    IF element # s.default
    THEN [s EXCEPT !.inner = InnerSet(s.inner, s.timestamp + 1, element),
                   !.identity = FALSE,
                   !.timestamp = s.timestamp + 1]
    ELSE [s EXCEPT !.timestamp = s.timestamp + 1]

\* Stream.__init__
NewStream ==
    Send([timestamp |-> -1,
          inner |-> <<>>,
          identity |-> TRUE,
          default |-> GroupIdentity,
          default_changes |-> (0 :> GroupIdentity)],
         GroupIdentity)

get_current_time(s) == s.timestamp

\* Stream.set_default: the body only returns the NotImplementedError class
set_default(s, new_default) == s

\* the while loop of Stream.__getitem__ (lines 66-67)
RECURSIVE ExtendTo(_, _)
ExtendOneMore(s, timestamp) ==
    IF timestamp >= get_current_time(s)
    THEN ExtendTo(Send(s, s.default), timestamp)
    ELSE s

ExtendTo(s, timestamp) ==
    IF timestamp > get_current_time(s)
    THEN ExtendTo(Send(s, s.default), timestamp)
    ELSE s

\* the in-range branch of Stream.__getitem__ (lines 61-63)
Lookup(s, timestamp) ==
    LET earlier == {t \in DOMAIN s.default_changes : t < timestamp}
        default_timestamp == IF earlier = {} THEN 0 ELSE SetMax(earlier)
    IN  InnerGet(s.inner, timestamp, s.default_changes[default_timestamp])

\* Stream.__getitem__ on a timestamp within the cursor: the stream, the value
\* returned, whether it raised
ReadWithin(s, timestamp) ==
    [stream |-> s, value |-> Lookup(s, timestamp), raised |-> FALSE]

\* Stream.__getitem__
GetItemChecksLate(s, timestamp) ==
    IF timestamp < 0
    THEN [stream |-> Send(s, s.default), value |-> "ValueError", raised |-> TRUE]
    ELSE ReadWithin(ExtendTo(s, timestamp), timestamp)

\* Stream.__getitem__
GetItem(s, timestamp) ==
    IF timestamp < 0
    THEN [stream |-> s, value |-> "ValueError", raised |-> TRUE]
    ELSE ReadWithin(ExtendTo(s, timestamp), timestamp)

\* Stream.latest
Latest(s) == GetItem(s, get_current_time(s))

\* Stream.__iter__ / to_list: each in-range read in turn
IterYield(r, rest) ==
    [stream |-> rest.stream, value |-> <<r.value>> \o rest.value]

RECURSIVE IterFrom(_, _, _)
IterFrom(s, t, last) ==
    IF t > last
    THEN [stream |-> s, value |-> <<>>]
    ELSE IterYield(GetItem(s, t), IterFrom(GetItem(s, t).stream, t + 1, last))

ToList(s) == IterFrom(s, 0, get_current_time(s))

is_identity_stream(s) == s.identity

\* Stream.__eq__
StreamEqCursorsFirst(self, other) ==
    IF get_current_time(self) # get_current_time(other)
    THEN FALSE
    ELSE self.inner = other.inner

\* Stream.__eq__
StreamEq(self, other) ==
    IF is_identity_stream(self) /\ is_identity_stream(other)
    THEN TRUE
    ELSE IF get_current_time(self) # get_current_time(other)
         THEN FALSE
         ELSE self.inner = other.inner

\* ------------------------------------------------------------- operators
\* An operator is a record: its kind, the output stream it owns and its
\* frontiers.  Input streams are passed to a step and handed back, because a
\* read past an input's cursor extends that input.

\* the lifted functions: LiftedGroupNegate (line 331), the identity function
Apply1NoNeg(f1, x) == x

Apply1(f1, x) ==
    IF f1 = "neg" THEN GroupNeg(x) ELSE x

\* the lifted function of LiftedGroupAdd (line 322)
Apply2Sub(f2, x, y) == GroupAdd(x, GroupNeg(y))

Apply2(f2, x, y) == GroupAdd(x, y)

Max2(x, y) == IF x >= y THEN x ELSE y

Min2(x, y) == IF x <= y THEN x ELSE y

\* UnaryOperator.set_input with Lift1.__init__
NewLift1(f1) ==
    [kind |-> "Lift1", output |-> NewStream, frontier |-> 0, f1 |-> f1]

\* Lift1.step, lines 261-265: the value read at frontier + 1 is lifted and sent
Lift1AdvanceUnlifted(read, op) ==
    [input |-> read.stream,
     op |-> [op EXCEPT !.output = Send(op.output, read.value),
                       !.frontier = op.frontier + 1],
     ret |-> FALSE]

Lift1Advance(read, op) ==
    [input |-> read.stream,
     op |-> [op EXCEPT !.output = Send(op.output, Apply1(op.f1, read.value)),
                       !.frontier = op.frontier + 1],
     ret |-> FALSE]

\* Lift1.step
Lift1StepAtFrontier(input, op) ==
    IF get_current_time(input) = get_current_time(op.output)
       /\ get_current_time(input) = op.frontier
    THEN [input |-> input, op |-> op, ret |-> TRUE]
    ELSE Lift1Advance(GetItem(input, op.frontier), op)

Lift1StepNeverDone(input, op) ==
    LET output_timestamp == get_current_time(op.output)
        input_timestamp == get_current_time(input)
        join == Max2(input_timestamp, Max2(output_timestamp, op.frontier))
        meet == Min2(input_timestamp, Min2(output_timestamp, op.frontier))
        next_frontier == op.frontier + 1
    IN  IF join = meet
        THEN [input |-> input, op |-> op, ret |-> FALSE]
        ELSE Lift1Advance(GetItem(input, next_frontier), op)

Lift1Step(input, op) ==
    LET output_timestamp == get_current_time(op.output)
        input_timestamp == get_current_time(input)
        join == Max2(input_timestamp, Max2(output_timestamp, op.frontier))
        meet == Min2(input_timestamp, Min2(output_timestamp, op.frontier))
        next_frontier == op.frontier + 1
    IN  IF join = meet
        THEN [input |-> input, op |-> op, ret |-> TRUE]
        ELSE Lift1Advance(GetItem(input, next_frontier), op)

\* BinaryOperator.set_input_a with Lift2.__init__ (LiftedGroupAdd)
NewLift2(f2) ==
    [kind |-> "Lift2", output |-> NewStream, frontier_a |-> 0, frontier_b |-> 0,
     f2 |-> f2]

\* Lift2.step, lines 303-314: both values read at frontier + 1 are combined and sent
Lift2AdvanceTwiceA(read_a, read_b, op) ==
    [a |-> read_a.stream,
     b |-> read_b.stream,
     op |-> [op EXCEPT !.output = Send(op.output,
                                      Apply2(op.f2, read_a.value, read_a.value)),
                       !.frontier_a = op.frontier_a + 1,
                       !.frontier_b = op.frontier_b + 1],
     ret |-> FALSE]

Lift2Advance(read_a, read_b, op) ==
    [a |-> read_a.stream,
     b |-> read_b.stream,
     op |-> [op EXCEPT !.output = Send(op.output,
                                      Apply2(op.f2, read_a.value, read_b.value)),
                       !.frontier_a = op.frontier_a + 1,
                       !.frontier_b = op.frontier_b + 1],
     ret |-> FALSE]

\* Lift2.step
Lift2Step(input_a, input_b, op) ==
    LET a_timestamp == get_current_time(input_a)
        b_timestamp == get_current_time(input_b)
        output_timestamp == get_current_time(op.output)
        join == Max2(Max2(a_timestamp, b_timestamp),
                     Max2(output_timestamp, Max2(op.frontier_a, op.frontier_b)))
        meet == Min2(Min2(a_timestamp, b_timestamp),
                     Min2(output_timestamp, Min2(op.frontier_a, op.frontier_b)))
        next_frontier_a == op.frontier_a + 1
        next_frontier_b == op.frontier_b + 1
    IN  IF join = meet
        THEN [a |-> input_a, b |-> input_b, op |-> op, ret |-> TRUE]
        ELSE Lift2Advance(GetItem(input_a, next_frontier_a),
                          GetItem(input_b, next_frontier_b), op)

\* Delay.__init__
NewDelay == [kind |-> "Delay", output |-> NewStream]

\* Delay.step, lines 30-31: the value read is sent
DelayAdvance(read, op) ==
    [input |-> read.stream,
     op |-> [op EXCEPT !.output = Send(op.output, read.value)],
     ret |-> FALSE]

\* Delay.step
DelayStepStrict(input, op) ==
    IF get_current_time(op.output) < get_current_time(input)
    THEN DelayAdvance(GetItem(input, get_current_time(op.output)), op)
    ELSE [input |-> input, op |-> op, ret |-> TRUE]

DelayStepNoShift(input, op) ==
    IF get_current_time(op.output) <= get_current_time(input)
    THEN DelayAdvance(GetItem(input, get_current_time(op.output) + 1), op)
    ELSE [input |-> input, op |-> op, ret |-> TRUE]

DelayStep(input, op) ==
    LET output_timestamp == get_current_time(op.output)
        input_timestamp == get_current_time(input)
    IN  IF output_timestamp <= input_timestamp
        THEN DelayAdvance(GetItem(input, output_timestamp), op)
        ELSE [input |-> input, op |-> op, ret |-> TRUE]

\* UnaryOperator.output of a Differentiate or Integrate: __init__ makes the
\* output handle the one of the inner LiftedGroupAdd (the stream `inner`);
\* set_input on the built operator puts a stream of its own in that place
OwnOutput(op, inner) == IF "output" \in DOMAIN op THEN op.output ELSE inner

\* Differentiate.__init__: Delay -> LiftedGroupNegate -> LiftedGroupAdd(input, negated)
NewDifferentiate ==
    [kind |-> "Differentiate",
     delayed_stream |-> NewDelay,
     delayed_negated_stream |-> NewLift1("neg"),
     differentiation_stream |-> NewLift2("add")]

\* Differentiate.step, line 53, after the three sub-steps d, n, s
DifferentiateReturn(d, n, s, op) ==
    [input |-> s.a,
     op |-> [op EXCEPT !.delayed_stream = [d.op EXCEPT !.output = n.input],
                       !.delayed_negated_stream = [n.op EXCEPT !.output = s.b],
                       !.differentiation_stream = s.op],
     ret |-> get_current_time(OwnOutput(op, s.op.output)) = get_current_time(s.a)]

\* Differentiate.step, line 52: differentiation_stream.step()
DifferentiateAdd(d, n, op) ==
    CHOOSE r \in {DifferentiateReturn(d, n, s, op) :
                    s \in {Lift2Step(d.input, n.op.output, op.differentiation_stream)}} :
        TRUE

\* Differentiate.step, line 51: delayed_negated_stream.step()
DifferentiateNegate(d, op) ==
    CHOOSE r \in {DifferentiateAdd(d, n, op) :
                    n \in {Lift1Step(d.op.output, op.delayed_negated_stream)}} :
        TRUE

\* Differentiate.step (line 50: delayed_stream.step())
DifferentiateStep(input, op) ==
    CHOOSE r \in {DifferentiateNegate(d, op) :
                    d \in {DelayStep(input, op.delayed_stream)}} :
        TRUE

\* Integrate.__init__: LiftedGroupAdd(input, Delay(its own output))
NewIntegrate ==
    [kind |-> "Integrate",
     integration_stream |-> NewLift2("add"),
     delayed_stream |-> NewDelay]

\* Integrate.step, line 70, after the two sub-steps d, s
IntegrateReturn(d, s, op) ==
    [input |-> s.a,
     op |-> [op EXCEPT !.integration_stream = s.op,
                       !.delayed_stream = [d.op EXCEPT !.output = s.b]],
     ret |-> get_current_time(OwnOutput(op, s.op.output)) = get_current_time(s.a)]

\* Integrate.step, line 69: integration_stream.step()
IntegrateAdd(input, d, op) ==
    CHOOSE r \in {IntegrateReturn(d, s, op) :
                    s \in {Lift2Step(input, d.op.output,
                                     [op.integration_stream EXCEPT !.output = d.input])}} :
        TRUE

\* Integrate.step (line 68: delayed_stream.step())
IntegrateStepNoDelay(input, op) ==
    IntegrateAdd(input,
                 [input |-> op.integration_stream.output, op |-> op.delayed_stream,
                  ret |-> TRUE],
                 op)

IntegrateStep(input, op) ==
    CHOOSE r \in {IntegrateAdd(input, d, op) :
                    d \in {DelayStep(op.integration_stream.output, op.delayed_stream)}} :
        TRUE

\* Operator.output_handle().get()
Output(op) ==
    IF op.kind = "Differentiate" THEN OwnOutput(op, op.differentiation_stream.output)
    ELSE IF op.kind = "Integrate" THEN OwnOutput(op, op.integration_stream.output)
    ELSE op.output

\* a step of an operator with one input, as a step of the circuit <<a, b, op>>
Unary(r, input_b) ==
    [a |-> r.input, b |-> input_b, op |-> r.op, ret |-> r.ret]

\* Operator.step, by the operator's class: the inputs and the operator it leaves
Step(input_a, input_b, op) ==
    IF op.kind = "Lift2" THEN Lift2Step(input_a, input_b, op)
    ELSE IF op.kind = "Lift1" THEN Unary(Lift1Step(input_a, op), input_b)
    ELSE IF op.kind = "Delay" THEN Unary(DelayStep(input_a, op), input_b)
    ELSE IF op.kind = "Differentiate" THEN Unary(DifferentiateStep(input_a, op), input_b)
    ELSE Unary(IntegrateStep(input_a, op), input_b)

\* Lift1.__init__ with stream None: UnaryOperator.__init__ skips set_input, the
\* operator has neither an input handle nor an output handle
NewUnboundLift1(f1) ==
    [kind |-> "Unbound", class |-> "Lift1", frontier |-> 0, f1 |-> f1]

\* Delay.__init__ with stream None
NewUnboundDelay ==
    [kind |-> "Unbound", class |-> "Delay"]

\* LiftedGroupAdd(a, None): BinaryOperator.__init__ calls set_input_a (which makes
\* the output) and skips set_input_b
NewUnboundLift2(f2) ==
    [kind |-> "Unbound", class |-> "Lift2", output |-> NewStream,
     frontier_a |-> 0, frontier_b |-> 0, f2 |-> f2]

\* the class of an operator, bound or not
ClassOf(op) == IF op.kind = "Unbound" THEN op.class ELSE op.kind

\* UnaryOperator.set_input: the input is bound and a new output stream is made;
\* on an operator that is bound already the new stream takes the place of the
\* output and the frontier stays where it was; the operators inside a
\* Differentiate or Integrate keep the streams they were built over
set_input(op) ==
    IF ClassOf(op) = "Lift1"
    THEN [kind |-> "Lift1", output |-> NewStream, frontier |-> op.frontier,
          f1 |-> op.f1]
    ELSE IF ClassOf(op) = "Delay"
    THEN [kind |-> "Delay", output |-> NewStream]
    ELSE IF ClassOf(op) = "Differentiate"
    THEN [kind |-> "Differentiate",
          delayed_stream |-> op.delayed_stream,
          delayed_negated_stream |-> op.delayed_negated_stream,
          differentiation_stream |-> op.differentiation_stream,
          output |-> NewStream]
    ELSE [kind |-> "Integrate",
          integration_stream |-> op.integration_stream,
          delayed_stream |-> op.delayed_stream,
          output |-> NewStream]

\* BinaryOperator.set_output_stream
set_output_stream(op, s) == [op EXCEPT !.output = s]

\* BinaryOperator.set_input_a: input a is bound and a new output stream is made
set_input_a(op) == set_output_stream(op, NewStream)

\* BinaryOperator.set_input_b
set_input_b(op) ==
    [kind |-> "Lift2", output |-> op.output, frontier_a |-> op.frontier_a,
     frontier_b |-> op.frontier_b, f2 |-> op.f2]

\* step() of an operator with a missing binding: the first read of the missing
\* handle (Lift1.step line 254, Delay.step line 26, Lift2.step line 295) raises
StepUnboundAsEmpty(input_a, input_b, op) ==
    IF op.class = "Lift2"
    THEN Step(input_a, NewStream, set_input_b(op))
    ELSE Step(NewStream, input_b, set_input(op))

StepUnbound(input_a, input_b, op) ==
    [a |-> input_a, b |-> input_b, op |-> op, ret |-> "AttributeError"]

\* UnaryOperator.output / BinaryOperator.output: the read of output_stream_handle
OutputUnbound(op) ==
    IF "output" \in DOMAIN op
    THEN [raised |-> FALSE, value |-> op.output]
    ELSE [raised |-> TRUE, value |-> "AttributeError"]

\* the furthest frontier of a Lift1 or Lift2
Frontier(op) ==
    IF op.kind = "Lift1" THEN op.frontier
    ELSE IF op.kind = "Lift2" THEN Max2(op.frontier_a, op.frontier_b)
    ELSE IF op.kind = "Differentiate"
    THEN Max2(op.differentiation_stream.frontier_a, op.differentiation_stream.frontier_b)
    ELSE IF op.kind = "Integrate"
    THEN Max2(op.integration_stream.frontier_a, op.integration_stream.frontier_b)
    ELSE 0

\* whether the loop of step_until_fixpoint can end: a step of a Lift1 or Lift2
\* that returns false moves each frontier and the output cursor up by one, so
\* join = meet is met only if they are level; from a frontier ahead of the
\* output (set_input on a stepped operator) step() returns false for ever.
\* A Differentiate or Integrate given an output of its own never writes it,
\* and each of its steps leaves the input cursor at 1 or more
Converges(op) ==
    IF op.kind = "Lift1" THEN op.frontier = get_current_time(op.output)
    ELSE IF op.kind = "Lift2"
    THEN /\ op.frontier_a = get_current_time(op.output)
         /\ op.frontier_b = get_current_time(op.output)
    ELSE IF op.kind \in {"Differentiate", "Integrate"} THEN "output" \notin DOMAIN op
    ELSE TRUE

\* step_until_fixpoint: the loop goes on from the state r of the last step
RECURSIVE step_until_fixpoint(_, _, _)
Again(r) ==
    IF r.ret THEN r ELSE step_until_fixpoint(r.a, r.b, r.op)

step_until_fixpoint(input_a, input_b, op) == Again(Step(input_a, input_b, op))

\* step_until_fixpoint_and_return on an operator with one input
Returned(r) == [input |-> r.a, out |-> Output(r.op)]

DrainUnary(input, op) == Returned(step_until_fixpoint(input, NewStream, op))

\* the operator op with s in the place of its output stream
SetOutput(op, s) ==
    IF op.kind = "Integrate" /\ "output" \notin DOMAIN op
    THEN [op EXCEPT !.integration_stream.output = s]
    ELSE [op EXCEPT !.output = s]

\* step_until_fixpoint_set_new_default_then_return, lines 78-82, on the drained
\* circuit r and the read `latest` of its output
SetNewDefault(r, latest) ==
    [a |-> r.a,
     b |-> r.b,
     op |-> SetOutput(r.op, set_default(latest.stream, latest.value)),
     out |-> set_default(latest.stream, latest.value),
     latest |-> latest.value]

SetNewDefaultOf(r) == SetNewDefault(r, Latest(Output(r.op)))

step_until_fixpoint_set_new_default_then_return(input, op) ==
    SetNewDefaultOf(step_until_fixpoint(input, NewStream, op))

\* StreamAddition.add, lines 349-354, on the drained LiftedGroupAdd r
AddDefaults(r) ==
    [a |-> r.a,
     b |-> r.b,
     out |-> [Output(r.op) EXCEPT
                 !.default = IF is_identity_stream(r.b) THEN r.a.default
                             ELSE IF is_identity_stream(r.a) THEN r.b.default
                             ELSE @]]

\* StreamAddition.add
StreamAdd(a, b) == AddDefaults(step_until_fixpoint(a, b, NewLift2("add")))

\* StreamAddition.neg
StreamNeg(a) == DrainUnary(a, NewLift1("neg"))

\* StreamAddition.identity
StreamIdentity == NewStream

\* ------------------------------------------------------------ the system
\* a, b : the caller's streams (the external inputs of the operator)
\* op   : the operator built over them; kind "Stream": none, the caller
\*        works on stream a itself; kind "StreamAddition": none, the caller
\*        adds and negates streams a and b
\* last : the last call made, its argument, what it returned, and the streams
\*        it handed back (for "get": x is the cursor the call found)
VARIABLES a, b, op, last

vars == <<a, b, op, last>>

Nil == "nil"

Call(call, arg, ret, x, y) ==
    [call |-> call, arg |-> arg, ret |-> ret, x |-> x, y |-> y]

Init ==
    /\ a = NewStream
    /\ b = NewStream
    /\ \/ op = [kind |-> "Stream"]
       \/ op = [kind |-> "StreamAddition"]
       \/ op = NewLift1("neg")
       \/ op = NewLift1("id")
       \/ op = NewLift2("add")
       \/ op = NewDelay
       \/ op = NewDifferentiate
       \/ op = NewIntegrate
       \/ op = NewUnboundLift1("neg")
       \/ op = NewUnboundDelay
       \/ op = NewUnboundLift2("add")
    /\ last = Call("init", Nil, Nil, Nil, Nil)

\* the caller sends a value on input a
SendA ==
    /\ get_current_time(a) < MaxSends
    /\ \E v \in Values :
          /\ a' = Send(a, v)
          /\ last' = Call("send", v, Nil, Nil, Nil)
    /\ UNCHANGED <<b, op>>

\* the caller sends a value on input b
SendB ==
    /\ \/ op.kind \in {"StreamAddition", "Lift2"}
       \/ (op.kind = "Unbound" /\ op.class = "Lift2")
    /\ get_current_time(b) < MaxSendsB
    /\ \E v \in ValuesB :
          /\ b' = Send(b, v)
          /\ last' = Call("send_b", v, Nil, Nil, Nil)
    /\ UNCHANGED <<a, op>>

\* the caller reads a[t]
ReadA ==
    /\ op.kind = "Stream"
    /\ \E t \in -1..MaxRead :
          LET r == GetItem(a, t)
          IN  /\ a' = r.stream
              /\ last' = Call("get", t, r.value, get_current_time(a), Nil)
    /\ UNCHANGED <<b, op>>

\* the caller reads a.latest()
LatestA ==
    /\ op.kind = "Stream"
    /\ LET r == Latest(a)
       IN  /\ a' = r.stream
           /\ last' = Call("latest", Nil, r.value, Nil, Nil)
    /\ UNCHANGED <<b, op>>

\* the caller iterates a (to_list)
IterA ==
    /\ op.kind = "Stream"
    /\ LET r == ToList(a)
       IN  /\ a' = r.stream
           /\ last' = Call("iter", Nil, r.value, Nil, Nil)
    /\ UNCHANGED <<b, op>>

\* one call of op.step()
StepOp ==
    /\ op.kind \notin {"Stream", "StreamAddition", "Unbound"}
    /\ get_current_time(Output(op)) < MaxSteps
    /\ Frontier(op) < MaxSteps
    /\ \E r \in {Step(a, b, op)} :
           /\ a' = r.a
           /\ b' = r.b
           /\ op' = r.op
           /\ last' = Call("step", Nil, r.ret, Nil, Nil)

\* step_until_fixpoint(op)
Drain ==
    /\ op.kind \notin {"Stream", "StreamAddition", "Unbound"}
    /\ get_current_time(Output(op)) < MaxSteps
    /\ Converges(op)
    /\ \E r \in {step_until_fixpoint(a, b, op)} :
           /\ a' = r.a
           /\ b' = r.b
           /\ op' = r.op
           /\ last' = Call("step_until_fixpoint", Nil, Nil, Nil, Nil)

\* the caller evaluates add(a, b) == add(b, a)
AddCommute ==
    /\ op.kind = "StreamAddition"
    /\ \E ab \in {StreamAdd(a, b)} : \E ba \in {StreamAdd(ab.b, ab.a)} :
           /\ a' = ba.b
           /\ b' = ba.a
           /\ last' = Call("add_commute", Nil, StreamEq(ab.out, ba.out), ab.out, ba.out)
    /\ UNCHANGED op

\* the caller evaluates add(a, neg(a)) == identity()
AddNeg ==
    /\ op.kind = "StreamAddition"
    /\ \E n \in {StreamNeg(a)} : \E s \in {StreamAdd(n.input, n.out)} :
           /\ a' = s.a
           /\ last' = Call("add_neg", Nil, StreamEq(s.out, StreamIdentity), s.out, s.b)
    /\ UNCHANGED <<b, op>>

\* the caller evaluates Integrate(Differentiate(a)) == a, both drained
IntegrateDifferentiate ==
    /\ op.kind = "Stream"
    /\ \E d \in {DrainUnary(a, NewDifferentiate)} :
       \E i \in {DrainUnary(d.out, NewIntegrate)} :
           /\ a' = d.input
           /\ last' = Call("integrate_differentiate", Nil, StreamEq(i.out, d.input),
                           i.out, i.input)
    /\ UNCHANGED <<b, op>>

\* the caller evaluates Differentiate(Integrate(a)) == a, both drained
DifferentiateIntegrate ==
    /\ op.kind = "Stream"
    /\ \E i \in {DrainUnary(a, NewIntegrate)} :
       \E d \in {DrainUnary(i.out, NewDifferentiate)} :
           /\ a' = i.input
           /\ last' = Call("differentiate_integrate", Nil, StreamEq(d.out, i.input),
                           d.out, d.input)
    /\ UNCHANGED <<b, op>>

\* the caller evaluates a == b
CompareAB ==
    /\ op.kind = "StreamAddition"
    /\ last' = Call("eq", Nil, StreamEq(a, b), Nil, Nil)
    /\ UNCHANGED <<a, b, op>>

\* the caller sets a new default on a
SetDefaultA ==
    /\ op.kind = "Stream"
    /\ \E v \in Values :
           /\ a' = set_default(a, v)
           /\ last' = Call("set_default", v, "NotImplementedError", Nil, Nil)
    /\ UNCHANGED <<b, op>>

\* step_until_fixpoint_set_new_default_then_return(op) on a Delay or an Integrate
DrainSetDefault ==
    /\ op.kind \in {"Delay", "Integrate"}
    /\ get_current_time(Output(op)) < MaxSteps
    /\ Converges(op)
    /\ \E r \in {step_until_fixpoint_set_new_default_then_return(a, op)} :
           /\ a' = r.a
           /\ op' = r.op
           /\ last' = Call("set_new_default", Nil, r.latest, r.out, Nil)
    /\ UNCHANGED b

\* op.step() on an operator with a missing binding
StepUnboundOp ==
    /\ op.kind = "Unbound"
    /\ \E r \in {StepUnbound(a, b, op)} :
           /\ a' = r.a
           /\ b' = r.b
           /\ op' = r.op
           /\ last' = Call("step_unbound", Nil, r.ret, Nil, Nil)

\* op.output() on an operator with a missing binding
OutputUnboundOp ==
    /\ op.kind = "Unbound"
    /\ \E r \in {OutputUnbound(op)} :
           last' = Call("output_unbound", Nil,
                        IF r.raised THEN r.value ELSE Nil,
                        IF r.raised THEN Nil ELSE r.value, Nil)
    /\ UNCHANGED <<a, b, op>>

\* the caller binds the missing input, or binds the input again: set_input on a
\* Lift1 or Delay, set_input_b on a Lift2
BindInput ==
    /\ op.kind \notin {"Stream", "StreamAddition"}
    /\ op' = IF ClassOf(op) = "Lift2" THEN set_input_b(op) ELSE set_input(op)
    /\ last' = Call("set_input", Nil, Nil, Nil, Nil)
    /\ UNCHANGED <<a, b>>

\* the caller binds input a of a Lift2 again: set_input_a
BindInputA ==
    /\ op.kind \in {"Unbound", "Lift2"}
    /\ ClassOf(op) = "Lift2"
    /\ op' = set_input_a(op)
    /\ last' = Call("set_input_a", Nil, Nil, Nil, Nil)
    /\ UNCHANGED <<a, b>>

\* the caller gives a Lift2 a new stream as its output: set_output_stream
SetOutputStream ==
    /\ op.kind \in {"Unbound", "Lift2"}
    /\ ClassOf(op) = "Lift2"
    /\ op' = set_output_stream(op, NewStream)
    /\ last' = Call("set_output_stream", Nil, Nil, Nil, Nil)
    /\ UNCHANGED <<a, b>>

Next ==
    \/ SendA
    \/ SendB
    \/ ReadA
    \/ LatestA
    \/ IterA
    \/ StepOp
    \/ Drain
    \/ AddCommute
    \/ AddNeg
    \/ IntegrateDifferentiate
    \/ DifferentiateIntegrate
    \/ CompareAB
    \/ SetDefaultA
    \/ DrainSetDefault
    \/ StepUnboundOp
    \/ OutputUnboundOp
    \/ BindInput
    \/ BindInputA
    \/ SetOutputStream

Spec == Init /\ [][Next]_vars

\* ------------------------------------------------- the draining loop, step by step

\* the circuit a draining loop started from
Circuit == [a |-> a, b |-> b, op |-> op]

\* step_until_fixpoint, line 135: `while not operator.step()`
WhileNot(ret) == IF ret THEN "returned" ELSE "draining"

\* the caller calls step_until_fixpoint(op): the loop is entered, on any
\* circuit
DrainBegin ==
    /\ last.call # "draining"
    /\ get_current_time(Output(op)) < MaxSteps
    /\ last' = Call("draining", Nil, Nil, Circuit, Nil)
    /\ UNCHANGED <<a, b, op>>

\* one turn of the loop: a step(), then the test of what it returned.  The
\* loop has no exit but a step() that returns true; the frontier is a counter
\* without a bound in a loop that gets false for ever, and the turns are
\* followed while it is at most MaxSteps
DrainStep ==
    /\ last.call = "draining"
    /\ Frontier(op) <= MaxSteps
    /\ \E r \in {Step(a, b, op)} :
           /\ a' = r.a
           /\ b' = r.b
           /\ op' = r.op
           /\ last' = [last EXCEPT !.call = WhileNot(r.ret)]

\* outside the loop the caller sends and steps as it likes
Idle(a1, b1, op1) == Call("idle", Nil, Nil, [a |-> a1, b |-> b1, op |-> op1], Nil)

CallerSendA ==
    /\ last.call # "draining"
    /\ get_current_time(a) < MaxSends
    /\ \E v \in Values :
          /\ a' = Send(a, v)
          /\ last' = Idle(Send(a, v), b, op)
    /\ UNCHANGED <<b, op>>

CallerSendB ==
    /\ last.call # "draining"
    /\ op.kind = "Lift2"
    /\ get_current_time(b) < MaxSendsB
    /\ \E v \in ValuesB :
          /\ b' = Send(b, v)
          /\ last' = Idle(a, Send(b, v), op)
    /\ UNCHANGED <<a, op>>

CallerStep ==
    /\ last.call # "draining"
    /\ get_current_time(Output(op)) < MaxSteps
    /\ Frontier(op) < MaxSteps
    /\ \E r \in {Step(a, b, op)} :
           /\ a' = r.a
           /\ b' = r.b
           /\ op' = r.op
           /\ last' = Idle(r.a, r.b, r.op)

\* the caller binds the input again: set_input, set_input_a on a Lift2
Rebound(op1) == IF op1.kind = "Lift2" THEN set_input_a(op1) ELSE set_input(op1)

CallerBind ==
    /\ last.call # "draining"
    /\ op' = Rebound(op)
    /\ last' = Idle(a, b, Rebound(op))
    /\ UNCHANGED <<a, b>>

InitDrain ==
    /\ a = NewStream
    /\ b = NewStream
    /\ op \in {NewLift1("neg"), NewLift1("id"), NewLift2("add"), NewDelay,
                NewDifferentiate, NewIntegrate}
    /\ last = Idle(NewStream, NewStream, op)

NextDrain ==
    \/ CallerSendA
    \/ CallerSendB
    \/ CallerStep
    \/ CallerBind
    \/ DrainBegin
    \/ DrainStep

\* the loop has no suspension point: once entered it keeps taking turns
SpecDrain == InitDrain /\ [][NextDrain]_vars /\ WF_vars(DrainStep)

\* ---------------------------------------------------------------- claims
\* the value a stream holds at a timestamp within its cursor
At(s, t) == GetItem(s, t).value

\* the values of a stream, timestamps 0..cursor
Listed(s) == ToList(s).value

\* s[0] + ... + s[t] in the group
RECURSIVE SumTo(_, _)
SumTo(s, t) ==
    IF t < 0 THEN GroupIdentity ELSE GroupAdd(SumTo(s, t - 1), At(s, t))

\* out is the running sum of in, cursor for cursor
IntegrateLaw(in, out) ==
    /\ get_current_time(out) = get_current_time(in)
    /\ \A t \in 0..get_current_time(in) : At(out, t) = SumTo(in, t)

\* out is the difference of consecutive values of in, cursor for cursor
DifferentiateLaw(in, out) ==
    /\ get_current_time(out) = get_current_time(in)
    /\ At(out, 0) = GroupIdentity
    /\ \A t \in 1..get_current_time(in) :
          At(out, t) = GroupAdd(At(in, t), GroupNeg(At(in, t - 1)))

\* C1: after step_until_fixpoint on Integrate(a) the output cursor equals the
\* input cursor and output[t] = a[0] + ... + a[t] for every t up to it; the
\* input 0, 3, 5, 2 yields 0, 3, 8, 10.
C1_IntegrateDrained ==
    (op.kind = "Integrate" /\ last.call = "step_until_fixpoint") =>
        /\ IntegrateLaw(a, Output(op))
        /\ (Listed(a) = <<0, 3, 5, 2>> => Listed(Output(op)) = <<0, 3, 8, 10>>)

C1_Witness ==
    /\ op.kind = "Integrate"
    /\ last.call = "step_until_fixpoint"
    /\ Listed(a) = <<0, 3, 5, 2>>
    /\ Listed(Output(op)) = <<0, 3, 8, 10>>

\* C2: after step_until_fixpoint on Differentiate(s) the output cursor equals
\* the input cursor, output[0] is the identity and output[t] = s[t] + neg(s[t-1])
\* for t >= 1; Differentiate of 0, 3, 8, 10 (the drained Integrate of 0, 3, 5, 2)
\* yields 0, 3, 5, 2.
C2_DifferentiateDrained ==
    /\ (op.kind = "Differentiate" /\ last.call = "step_until_fixpoint") =>
          DifferentiateLaw(a, Output(op))
    /\ (last.call = "differentiate_integrate") =>
          /\ DifferentiateLaw(last.y, last.x)
          /\ (Listed(last.y) = <<0, 3, 8, 10>> => Listed(last.x) = <<0, 3, 5, 2>>)

C2_Witness ==
    /\ last.call = "differentiate_integrate"
    /\ Listed(last.y) = <<0, 3, 8, 10>>
    /\ Listed(last.x) = <<0, 3, 5, 2>>

\* C3: the drained Integrate of the drained Differentiate of a stream compares
\* equal to that stream, and so does the drained Differentiate of its drained
\* Integrate.
C3_RoundTrip ==
    (last.call \in {"integrate_differentiate", "differentiate_integrate"}) =>
        /\ last.ret = TRUE
        /\ StreamEq(last.x, a)

C3_Witness ==
    /\ last.call = "integrate_differentiate"
    /\ ~is_identity_stream(a)
    /\ get_current_time(a) = MaxSends
    /\ Listed(last.x) = Listed(a)
    /\ last.ret = TRUE

\* C4: in every state of Delay(a), output[0] is the identity and output[t] =
\* a[t-1] for every t from 1 to the output cursor; a step() appends one value
\* and returns false while the output cursor is <= the input cursor, and
\* returns true, appending nothing, once it exceeds it; the drained output has
\* cursor = input cursor + 1.
C4_DelayState ==
    op.kind = "Delay" =>
        /\ At(op.output, 0) = GroupIdentity
        /\ get_current_time(op.output) <= get_current_time(a) + 1
        /\ \A t \in 1..get_current_time(op.output) : At(op.output, t) = At(a, t - 1)
        /\ (last.call = "step_until_fixpoint") =>
              get_current_time(op.output) = get_current_time(a) + 1

C4_DelayStepCall ==
    (op.kind = "Delay" /\ last'.call = "step") =>
        IF get_current_time(op.output) <= get_current_time(a)
        THEN /\ last'.ret = FALSE
             /\ get_current_time(op'.output) = get_current_time(op.output) + 1
             /\ a' = a
        ELSE /\ last'.ret = TRUE
             /\ op' = op
             /\ a' = a

C4_DelayLaw == [](C4_DelayState) /\ [][C4_DelayStepCall]_vars

C4_Witness ==
    /\ op.kind = "Delay"
    /\ last.call = "step"
    /\ last.ret = TRUE
    /\ Listed(a) = <<0, 3, 5, 2>>
    /\ Listed(op.output) = <<0, 0, 3, 5, 2>>

\* C5: a step() that returns true changed no stream and no frontier, and a
\* step() that returns false advanced the operator's output cursor by exactly 1.
C5_StepCall ==
    (last'.call = "step") =>
        IF last'.ret
        THEN a' = a /\ b' = b /\ op' = op
        ELSE get_current_time(Output(op')) = get_current_time(Output(op)) + 1

C5_StepContract == [][C5_StepCall]_vars

\* C6: step(), step_until_fixpoint and StreamAddition.add / neg leave the
\* streams they consume as inputs as they found them.
C6_InputsKept ==
    (last'.call \in {"step", "step_until_fixpoint", "add_commute", "add_neg"}) =>
        a' = a /\ b' = b

C6_SingleWriter == [][C6_InputsKept]_vars

\* the value of an operand at a timestamp, the identity past its cursor
Operand(s, t) == IF t <= get_current_time(s) THEN At(s, t) ELSE GroupIdentity

\* C7: add(a, b) and add(b, a) both have cursor max(cursor(a), cursor(b)), hold
\* a[t] + b[t] at every timestamp up to it (a missing operand value counting as
\* the identity) and compare equal.
C7_AddCall ==
    (last'.call = "add_commute") =>
        LET top == Max2(get_current_time(a), get_current_time(b))
        IN  /\ get_current_time(last'.x) = top
            /\ get_current_time(last'.y) = top
            /\ \A t \in 0..top :
                  /\ At(last'.x, t) = GroupAdd(Operand(a, t), Operand(b, t))
                  /\ At(last'.y, t) = At(last'.x, t)
            /\ last'.ret = TRUE

C7_AddCommutes == [][C7_AddCall]_vars

C7_Witness ==
    /\ last.call = "add_commute"
    /\ last.ret = TRUE
    /\ ~is_identity_stream(a)
    /\ ~is_identity_stream(b)
    /\ Listed(a) # Listed(b)
    /\ ~is_identity_stream(last.x)
    /\ get_current_time(last.y) = MaxSends

\* C8: add(a, neg(a)) holds the identity at every timestamp from 0 to a's
\* cursor, is an identity stream with nothing recorded, and compares equal to
\* StreamAddition.identity().
C8_InverseLaw ==
    (last.call = "add_neg") =>
        /\ get_current_time(last.x) = get_current_time(a)
        /\ \A t \in 0..get_current_time(a) : At(last.x, t) = GroupIdentity
        /\ \A t \in 0..get_current_time(a) :
              At(last.y, t) = GroupNeg(At(a, t))
        /\ is_identity_stream(last.x)
        /\ last.x.inner = <<>>
        /\ last.ret = TRUE

C8_Witness ==
    /\ last.call = "add_neg"
    /\ ~is_identity_stream(a)
    /\ get_current_time(a) = MaxSends
    /\ is_identity_stream(last.x)
    /\ last.ret = TRUE

\* C9: over sends, reads within and past the cursor, latest() and iteration,
\* the cursor of a stream never decreases and the value read at a timestamp
\* within the cursor is the value read there in every later state.
C9_History(s, t) ==
    /\ get_current_time(t) >= get_current_time(s)
    /\ \A k \in 0..get_current_time(s) : At(t, k) = At(s, k)

C9_WriteOnce == [][C9_History(a, a') /\ C9_History(b, b')]_vars

C9_Witness ==
    /\ last.call = "get"
    /\ last.arg > last.x
    /\ last.x = MaxSends
    /\ Len(a.inner) = MaxSends

\* C10: get(t) with t past the cursor leaves the cursor at exactly t and
\* returns the default, records no value and keeps the identity flag; a stream
\* with default 0 and cursor 2 read at 5 ends with cursor 5 and returns 0.
\* get(t) with 0 <= t <= cursor, latest() and iteration change nothing.
C10_ReadCall ==
    /\ (last'.call = "get" /\ last'.arg > get_current_time(a)) =>
          /\ get_current_time(a') = last'.arg
          /\ last'.ret = a.default
          /\ a'.inner = a.inner
          /\ a'.identity = a.identity
          /\ a'.default = a.default
          /\ a'.default_changes = a.default_changes
    /\ (last'.call = "get" /\ 0 <= last'.arg /\ last'.arg <= get_current_time(a)) =>
          a' = a
    /\ (last'.call \in {"latest", "iter"}) => a' = a

C10_LazyExtension == [][C10_ReadCall]_vars

C10_Witness ==
    /\ last.call = "get"
    /\ last.x = 2
    /\ last.arg = 5
    /\ a.default = 0
    /\ a.inner = <<>>
    /\ is_identity_stream(a)
    /\ get_current_time(a) = 5
    /\ last.ret = 0

\* C11: get(t) with t < 0 fails with the invalid-argument error (ValueError)
\* whatever the stream holds, and leaves the stream as it was: cursor, recorded
\* values, default and identity flag.
C11_NegativeReadCall ==
    (last'.call = "get" /\ last'.arg < 0) =>
        /\ GetItem(a, last'.arg).raised
        /\ last'.ret = "ValueError"
        /\ a' = a

C11_NegativeRead == [][C11_NegativeReadCall]_vars

C11_Witness ==
    /\ last.call = "get"
    /\ last.arg = -1
    /\ last.ret = "ValueError"
    /\ ~is_identity_stream(a)
    /\ get_current_time(a) = MaxSends

\* the streams a caller holds in a state: its own, a fresh identity stream and
\* the streams the last call handed back
Held ==
    {a, b, StreamIdentity}
        \cup (IF last.call \in {"add_commute", "add_neg", "integrate_differentiate",
                                "differentiate_integrate"}
              THEN {last.x, last.y} ELSE {})

\* the same explicit values at the same timestamps
SameMapping(s, t) ==
    /\ InnerKeys(s.inner) = InnerKeys(t.inner)
    /\ \A k \in InnerKeys(s.inner) : InnerGet(s.inner, k, Nil) = InnerGet(t.inner, k, Nil)

\* C12: two streams that never received a non-default value are equal whatever
\* their cursors; otherwise two streams are equal exactly when their cursors
\* are equal and their explicit-value mappings are the same.  So equality is
\* reflexive, symmetric and transitive over the streams of every state.
C12_Equality ==
    /\ \A s \in Held : \A t \in Held :
          /\ (is_identity_stream(s) /\ is_identity_stream(t)) => StreamEq(s, t)
          /\ ~(is_identity_stream(s) /\ is_identity_stream(t)) =>
                (StreamEq(s, t) <=>
                    (get_current_time(s) = get_current_time(t) /\ SameMapping(s, t)))
          /\ StreamEq(s, s)
          /\ StreamEq(s, t) => StreamEq(t, s)
          /\ \A u \in Held : (StreamEq(s, t) /\ StreamEq(t, u)) => StreamEq(s, u)
    /\ (last.call = "eq") => (last.ret <=> StreamEq(a, b))

C12_Witness ==
    /\ last.call = "eq"
    /\ last.ret = TRUE
    /\ is_identity_stream(a)
    /\ is_identity_stream(b)
    /\ get_current_time(a) = MaxSends
    /\ get_current_time(b) = 0

\* C13: after step_until_fixpoint_set_new_default_then_return the returned
\* stream's default is its latest value and a read past its cursor returns that
\* value; after set_default(v) on a stream its default is v and a read past its
\* cursor returns v.
C13_DefaultCapture ==
    /\ (last.call = "set_new_default") =>
          /\ last.x.default = last.ret
          /\ At(last.x, get_current_time(last.x) + 1) = last.ret
    /\ (last.call = "set_default") =>
          /\ a.default = last.arg
          /\ At(a, get_current_time(a) + 1) = last.arg

\* C14: the drained Lift1 of a function f over a stream s has the cursor of s
\* and output[t] = f(s[t]) for every t from 1 to the cursor; with the identity
\* function output[t] = s[t] at every timestamp 0..cursor and the output
\* compares equal to s.
C14_LiftLaw ==
    (op.kind = "Lift1" /\ last.call = "step_until_fixpoint") =>
        /\ get_current_time(Output(op)) = get_current_time(a)
        /\ \A t \in 1..get_current_time(a) :
              At(Output(op), t) = Apply1(op.f1, At(a, t))
        /\ (op.f1 = "id") =>
              /\ \A t \in 0..get_current_time(a) : At(Output(op), t) = At(a, t)
              /\ StreamEq(Output(op), a)
              /\ StreamEq(a, Output(op))

C14_Witness ==
    /\ op.kind = "Lift1"
    /\ op.f1 = "id"
    /\ last.call = "step_until_fixpoint"
    /\ Listed(a) = <<0, 3, 0, 5>>
    /\ Listed(Output(op)) = <<0, 3, 0, 5>>

\* C15: step() on a Lift1 or Delay constructed without an input, or on a Lift2
\* whose input b is not set, and output() on such a Lift1 or Delay, end in an
\* error (AttributeError) and leave every stream and the operator as they were.
C15_UnboundCall ==
    (op.kind = "Unbound") =>
        /\ (last'.call = "step_unbound") =>
              /\ a' = a
              /\ b' = b
              /\ op' = op
              /\ StepUnbound(a, b, op).ret = "AttributeError"
              /\ last'.ret = "AttributeError"
        /\ (last'.call = "output_unbound" /\ op.class \in {"Lift1", "Delay"}) =>
              /\ a' = a
              /\ b' = b
              /\ op' = op
              /\ OutputUnbound(op).raised
              /\ last'.ret = "AttributeError"

C15_Unbound == [][C15_UnboundCall]_vars

C15_Witness ==
    /\ op.kind = "Unbound"
    /\ op.class = "Lift2"
    /\ last.call = "step_unbound"
    /\ last.ret = "AttributeError"
    /\ get_current_time(a) = MaxSends
    /\ ~is_identity_stream(a)
    /\ get_current_time(op.output) = 0

\* the output streams an operator holds, those of its sub-operators included
OperatorStreams ==
    IF op.kind \in {"Lift1", "Lift2", "Delay"} THEN {op.output}
    ELSE IF op.kind = "Differentiate"
    THEN {op.delayed_stream.output, op.delayed_negated_stream.output,
          op.differentiation_stream.output, Output(op)}
    ELSE IF op.kind = "Integrate"
    THEN {op.integration_stream.output, op.delayed_stream.output, Output(op)}
    ELSE IF op.kind = "Unbound" /\ "output" \in DOMAIN op THEN {op.output}
    ELSE {}

\* the streams the last call handed back
ReturnedStreams ==
    IF last.call \in {"add_commute", "add_neg", "integrate_differentiate",
                      "differentiate_integrate"}
    THEN {last.x, last.y}
    ELSE IF last.call = "set_new_default" THEN {last.x}
    ELSE IF last.call = "output_unbound" /\ last.ret = Nil THEN {last.x}
    ELSE {}

AllStreams == {a, b} \cup OperatorStreams \cup ReturnedStreams

Sparse(s) ==
    /\ InnerKeys(s.inner) \subseteq 1..get_current_time(s)
    /\ \A i \in 1..Len(s.inner) : s.inner[i][2] # s.default
    /\ is_identity_stream(s) <=> (s.inner = <<>>)

\* C16: in every reachable state, every stream (the caller's, the operators'
\* outputs, the results of StreamAddition and of the drained operators) records
\* explicit values only at timestamps 1..cursor, records no value equal to its
\* default, and has its identity flag set exactly when it records nothing.
C16_SparseCompression == \A s \in AllStreams : Sparse(s)

C16_Witness ==
    /\ op.kind = "Integrate"
    /\ last.call = "step_until_fixpoint"
    /\ a.inner = <<<<1, 3>>, <<3, -3>>>>
    /\ get_current_time(a) = 3
    /\ Output(op).inner = <<<<1, 3>>, <<2, 3>>>>
    /\ get_current_time(Output(op)) = 3
    /\ ~is_identity_stream(Output(op))

\* r is the last step of a loop that has left the circuit as it is now
ExitsWith(r) == r.ret /\ r.a = a /\ r.b = b /\ r.op = op

\* a turn of a loop entered on a circuit that is not well formed gets false
C17_LoopsOn ==
    (last.call = "draining" /\ ~Converges(last.x.op)) => last'.call = "draining"

\* C17: for Lift1, Lift2, Delay, Differentiate and Integrate over inputs of any
\* finite cursors, with no send while the loop runs, a draining loop entered on
\* a well-formed circuit (every frontier level with the output it counts, as
\* the constructors and the steps leave it) eventually returns; when it has
\* returned, the last step() it made had returned true, and the circuit is the
\* one step_until_fixpoint computes from where the loop began.  The circuits
\* left out are those whose loop never gets true: a frontier ahead of a new
\* output, or an output nothing writes.
C17_DrainTerminates ==
    /\ (last.call = "draining" /\ Converges(last.x.op)) ~> (last.call = "returned")
    /\ [](last.call = "returned" =>
            ExitsWith(step_until_fixpoint(last.x.a, last.x.b, last.x.op)))
    /\ [][C17_LoopsOn]_vars

C17_Witness ==
    /\ last.call = "returned"
    /\ op.kind = "Lift2"
    /\ get_current_time(last.x.a) = MaxSends
    /\ get_current_time(last.x.b) = 1
    /\ get_current_time(last.x.op.output) = 0
    /\ get_current_time(Output(op)) = MaxSends

C18_StableCall ==
    (last.call = "step" /\ last.ret = TRUE /\ last'.call = "step") =>
        /\ a' = a
        /\ b' = b
        /\ op' = op
        /\ last'.ret = TRUE

\* C18: once step() has returned true, a step() called next, with no send in
\* between, returns true again and leaves every stream (cursor and content) and
\* every frontier as they were.
C18_FixpointStable == [][C18_StableCall]_vars

\* C19: however the caller interleaves sends on the input with Integrate.step()
\* calls (drains included, and steps with nothing new to read), in every state
\* the delay output, the add output and both add frontiers are level, and the
\* add output and the operator's output (the add output, or the stream a later
\* set_input put in its place) have a cursor of at most the input cursor and
\* hold the sum input[0] + ... + input[t] at every t up to their cursor.
C19_Incremental ==
    (op.kind = "Integrate") =>
        /\ get_current_time(op.delayed_stream.output)
              = get_current_time(op.integration_stream.output)
        /\ op.integration_stream.frontier_a = get_current_time(op.integration_stream.output)
        /\ op.integration_stream.frontier_b = get_current_time(op.integration_stream.output)
        /\ \A out \in {op.integration_stream.output, Output(op)} :
              /\ get_current_time(out) <= get_current_time(a)
              /\ \A t \in 0..get_current_time(out) : At(out, t) = SumTo(a, t)

C19_Witness ==
    /\ op.kind = "Integrate"
    /\ last.call = "step"
    /\ last.ret = FALSE
    /\ Listed(a) = <<0, 3, 5, 2>>
    /\ Listed(Output(op)) = <<0, 3, 8>>
    /\ op.integration_stream.frontier_a = 2

\* a Lift1 l over the stream input, a Lift2 l: frontiers level with the output
Lift1Level(l, input) ==
    /\ l.frontier = get_current_time(l.output)
    /\ l.frontier <= get_current_time(input)

Lift2Level(l) ==
    /\ l.frontier_a = get_current_time(l.output)
    /\ l.frontier_b = get_current_time(l.output)

C20_FrontierState ==
    /\ (op.kind = "Lift1") => Lift1Level(op, a)
    /\ (op.kind = "Lift2") => Lift2Level(op)
    /\ (op.kind = "Differentiate") =>
          /\ Lift1Level(op.delayed_negated_stream, op.delayed_stream.output)
          /\ Lift2Level(op.differentiation_stream)
    /\ (op.kind = "Integrate") => Lift2Level(op.integration_stream)

\* the output out1 is the output out with the one value v appended
AppendsOne(out, out1, v) ==
    /\ get_current_time(out1) = get_current_time(out) + 1
    /\ \A t \in 0..get_current_time(out) : At(out1, t) = At(out, t)
    /\ At(out1, get_current_time(out1)) = v

C20_StepCall ==
    /\ (op.kind = "Lift1" /\ last'.call = "step" /\ last'.ret = FALSE) =>
          /\ a' = a
          /\ op'.frontier = op.frontier + 1
          /\ AppendsOne(op.output, op'.output,
                        Apply1(op.f1, At(a, op.frontier + 1)))
    /\ (op.kind = "Lift2" /\ last'.call = "step" /\ last'.ret = FALSE) =>
          /\ op'.frontier_a = op.frontier_a + 1
          /\ op'.frontier_b = op.frontier_b + 1
          /\ AppendsOne(op.output, op'.output,
                        Apply2(op.f2, At(a', op.frontier_a + 1),
                               At(b', op.frontier_b + 1)))

\* C20: in every state each frontier of a Lift1 or Lift2 (sub-operators of
\* Differentiate and Integrate included) equals its output cursor, and a Lift1
\* frontier is at most the input cursor; a step() that returns false appends
\* exactly one value, the function of the inputs at frontier + 1, and moves each
\* frontier up by one; a Lift1 step leaves its input as it was.
C20_LockStep == [](C20_FrontierState) /\ [][C20_StepCall]_vars

====
